---------------------------- MODULE Spec2Model ----------------------------
(***************************************************************************)
(* Line selection of the paste viewer (src/src/components/EditorTextArea.js)*)
(* as a state machine: the `selected` state of useSelectedLine, the window *)
(* hash it is read from and written to, the click listener and the         *)
(* highlight decoration of useLineNumberMagic, and React's render / passive *)
(* effect cycle that connects them.                                         *)
(*                                                                         *)
(* JavaScript strings are sequences of one-character strings; JavaScript   *)
(* numbers are integers plus the value NaN, compared with StrictEq.        *)
(***************************************************************************)
EXTENDS Integers, Sequences, FiniteSets

(***************************************************************************)
(* Bounds of the model.                                                    *)
(***************************************************************************)
\* the displayed document has lines 1..MaxLine
MaxLine == 4
\* longest window hash the page is loaded with
MaxHashLen == 5

(***************************************************************************)
(* JavaScript values.                                                      *)
(***************************************************************************)
\* the number NaN: an integer no line number or parsed hash takes
NaN == -1000000

\* x === y on numbers: NaN is equal to nothing, itself included
StrictEq(x, y) == x # NaN /\ y # NaN /\ x = y

\* isNaN(x)
IsNaN(x) == x = NaN

\* Math.min(x, y) and Math.max(x, y): NaN if either argument is NaN
MathMin(x, y) == IF x = NaN \/ y = NaN THEN NaN ELSE IF x <= y THEN x ELSE y
MathMax(x, y) == IF x = NaN \/ y = NaN THEN NaN ELSE IF x >= y THEN x ELSE y

Digits == <<"0", "1", "2", "3", "4", "5", "6", "7", "8", "9">>

IsDigit(c) == \E i \in 1..10 : Digits[i] = c

DigitVal(c) == (CHOOSE i \in 1..10 : Digits[i] = c) - 1

AllDigits(s) == \A i \in 1..Len(s) : IsDigit(s[i])

\* decimal digits of a natural number, as `${n}` prints them
RECURSIVE Dec(_)
Dec(n) == IF n < 10 THEN <<Digits[n + 1]>> ELSE Dec(n \div 10) \o <<Digits[(n % 10) + 1]>>

\* `${x}` for a number x (below 10^21, where JavaScript prints plain digits)
NumToString(x) ==
  IF x = NaN THEN <<"N", "a", "N">>
  ELSE IF x < 0 THEN <<"-">> \o Dec(-x)
  ELSE Dec(x)

\* value of a string of decimal digits
RECURSIVE DigitsValue(_)
DigitsValue(s) ==
  IF s = <<>> THEN 0
  ELSE 10 * DigitsValue(SubSeq(s, 1, Len(s) - 1)) + DigitVal(s[Len(s)])

\* Number(s) for a string s: 0 for the empty string, NaN unless all digits
\* (exact for the numbers of the model, all far below 2^53)
Number(s) == IF AllDigits(s) THEN DigitsValue(s) ELSE NaN

\* length of the longest prefix of s made of digits
RECURSIVE DigitPrefixLen(_)
DigitPrefixLen(s) ==
  IF s = <<>> \/ ~IsDigit(s[1]) THEN 0 ELSE 1 + DigitPrefixLen(Tail(s))

\* s without its leading blanks
RECURSIVE TrimStart(_)
TrimStart(s) == IF s # <<>> /\ s[1] = " " THEN TrimStart(Tail(s)) ELSE s

\* parseInt(text): blanks skipped, an optional sign, then the longest run of
\* digits; NaN when there is no digit there
ParseInt(text) ==
  LET t == TrimStart(text)
      signed == t # <<>> /\ t[1] \in {"-", "+"}
      body == IF signed THEN Tail(t) ELSE t
      n == DigitPrefixLen(body)
  IN IF n = 0 THEN NaN
     ELSE IF signed /\ t[1] = "-" THEN -DigitsValue(SubSeq(body, 1, n))
     ELSE DigitsValue(SubSeq(body, 1, n))

\* s.split(sep) for a one-character separator
RECURSIVE Split(_, _)
Split(s, sep) ==
  IF \A i \in 1..Len(s) : s[i] # sep THEN <<s>>
  ELSE LET k == CHOOSE i \in 1..Len(s) : s[i] = sep /\ \A j \in 1..(i - 1) : s[j] # sep
       IN <<SubSeq(s, 1, k - 1)>> \o Split(SubSeq(s, k + 1, Len(s)), sep)

\* s.substring(from), from counted from 0
Substring(s, from) == SubSeq(s, from + 1, Len(s))


(***************************************************************************)
(* useSelectedLine: the pure parts.                                        *)
(***************************************************************************)
\* HashMatches with the pattern /^#L\d+$/: the range part forgotten
HashMatchesNoRange(hash) ==
  /\ Len(hash) >= 3
  /\ hash[1] = "#"
  /\ hash[2] = "L"
  /\ AllDigits(Substring(hash, 2))

\* /^#L\d+(-\d+)?$/.test(hash)
HashMatches(hash) ==
  /\ Len(hash) >= 3
  /\ hash[1] = "#"
  /\ hash[2] = "L"
  /\ LET parts == Split(Substring(hash, 2), "-")
     IN /\ Len(parts) \in {1, 2}
        /\ \A i \in 1..Len(parts) : parts[i] # <<>> /\ AllDigits(parts[i])

\* InitSelected with the test of `end` inverted: the end is never used
InitSelectedNoEnd(hash) ==
  IF HashMatches(hash)
  THEN LET start == Number(Split(Substring(hash, 2), "-")[1])
       IN <<start, start>>
  ELSE <<-1, -1>>

\* the initializer of useState: the selection the window hash stands for
InitSelected(hash) ==
  IF HashMatches(hash)
  THEN LET parts == Split(Substring(hash, 2), "-")
           start == Number(parts[1])
           \* `end` is undefined when the hash has one number: isNaN(undefined)
           endIsNaN == Len(parts) < 2 \/ IsNaN(Number(parts[2]))
       IN <<start, IF endIsNaN THEN start ELSE Number(parts[2])>>
  ELSE <<-1, -1>>

\* SelectedHash without Math.min and Math.max: the stored order is written
SelectedHashUnordered(sel) ==
  IF ~StrictEq(sel[1], -1)
  THEN IF ~StrictEq(sel[2], sel[1])
       THEN <<"#", "L">> \o NumToString(sel[1]) \o <<"-">> \o NumToString(sel[2])
       ELSE <<"#", "L">> \o NumToString(sel[1])
  ELSE <<>>

\* the hash the effect on `selected` hands to history.replace
SelectedHash(sel) ==
  IF ~StrictEq(sel[1], -1)
  THEN IF ~StrictEq(sel[2], sel[1])
       THEN LET start == MathMin(sel[1], sel[2])
                end == MathMax(sel[1], sel[2])
            IN <<"#", "L">> \o NumToString(start) \o <<"-">> \o NumToString(end)
       ELSE <<"#", "L">> \o NumToString(sel[1])
  ELSE <<>>

\* ToggleSelected with `|| !shift` forgotten: a plain click extends too
ToggleSelectedNoShiftCheck(sel, lineNo, shift) ==
  IF StrictEq(sel[1], lineNo) /\ StrictEq(sel[2], lineNo) THEN <<-1, -1>>
  ELSE IF StrictEq(sel[1], -1) THEN <<lineNo, lineNo>>
  ELSE <<sel[1], lineNo>>

\* ToggleSelected without its first branch: nothing is ever deselected
ToggleSelectedNoCollapse(sel, lineNo, shift) ==
  IF StrictEq(sel[1], -1) \/ ~shift THEN <<lineNo, lineNo>>
  ELSE <<sel[1], lineNo>>

\* ToggleSelected storing the extended range smaller line first
ToggleSelectedSorted(sel, lineNo, shift) ==
  IF StrictEq(sel[1], lineNo) /\ StrictEq(sel[2], lineNo) THEN <<-1, -1>>
  ELSE IF StrictEq(sel[1], -1) \/ ~shift THEN <<lineNo, lineNo>>
  ELSE <<MathMin(sel[1], lineNo), MathMax(sel[1], lineNo)>>

\* ToggleSelected with `||` for `&&` in its first test: a click on either end
\* of a range deselects
ToggleSelectedEndpointCollapse(sel, lineNo, shift) ==
  IF StrictEq(sel[1], lineNo) \/ StrictEq(sel[2], lineNo) THEN <<-1, -1>>
  ELSE IF StrictEq(sel[1], -1) \/ ~shift THEN <<lineNo, lineNo>>
  ELSE <<sel[1], lineNo>>

\* ToggleSelected with `selected[0] === -1 ||` forgotten: a shift-click extends
\* the empty selection
ToggleSelectedShiftOnEmpty(sel, lineNo, shift) ==
  IF StrictEq(sel[1], lineNo) /\ StrictEq(sel[2], lineNo) THEN <<-1, -1>>
  ELSE IF ~shift THEN <<lineNo, lineNo>>
  ELSE <<sel[1], lineNo>>

\* the value toggleSelected(lineNo, e) passes to setSelected, `sel` being the
\* `selected` of the render that created this toggleSelected
ToggleSelected(sel, lineNo, shift) ==
  IF StrictEq(sel[1], lineNo) /\ StrictEq(sel[2], lineNo) THEN <<-1, -1>>
  ELSE IF StrictEq(sel[1], -1) \/ ~shift THEN <<lineNo, lineNo>>
  ELSE <<sel[1], lineNo>>

(***************************************************************************)
(* The component's state.                                                  *)
(***************************************************************************)
VARIABLES
  hash,          \* window.location.hash
  pushed,        \* entries added to the session history since the load
  selected,      \* the `selected` state of useSelectedLine, <<a, b>>
  editor,        \* TRUE once onMount has stored `editor` and `monaco`
  listeners,     \* click listeners bound to the EditorArea node, each the
                 \* `selected` its toggleSelected closes over
  decorations,   \* the editor's highlighted-line decorations, as ranges
  cleanup,       \* the decorations the last highlight effect's cleanup removes
  reveal,        \* the last scroll request made to the editor
  pending,       \* passive effects of the last commit that have not run yet
  alive,         \* FALSE once the component is unmounted
  click          \* the last click dispatched on the EditorArea node: its kind
                 \* of target, whether toggleSelected was called and, if so,
                 \* its lineNo, the shiftKey it read and the `selected` it read

vars == <<hash, pushed, selected, editor, listeners,
          decorations, cleanup, reveal, pending, alive, click>>

\* characters a loaded window hash is made of
HashChars == {"#", "L", "-", "0", "2", "x"}

\* window.location.hash is empty or "#" followed by at least one character
LoadedHashes ==
  {<<>>} \cup
  UNION {{<<"#">> \o t : t \in [1..n -> HashChars]} : n \in 1..(MaxHashLen - 1)}

\* textContent of the line-number cells: the line numbers of the document,
\* and the cases of a cell without a number
GutterTexts == {NumToString(n) : n \in 1..MaxLine} \cup {<<>>, <<"x">>}

\* a scroll request: revealLineInCenterIfOutsideViewport ("line") or
\* revealLinesInCenterIfOutsideViewport ("lines") with its arguments; both
\* put the target in the centre of the viewport if it is outside of it
NoReveal == [op |-> "none", from |-> 0, to |-> 0, center |-> FALSE]

NoClick ==
  [kind |-> "none", lineNo |-> NaN, shift |-> FALSE, called |-> FALSE,
   sel |-> <<-1, -1>>]

\* the effects of the component, in the order their hooks are declared
HashEffect == "hash"
ListenerEffect == "listener"
HighlightEffect == "highlight"

\* Init with a hash effect that skips the first render
InitSkipsHashEffect ==
  /\ hash \in LoadedHashes
  /\ pushed = 0
  /\ selected = InitSelected(hash)
  /\ editor = FALSE
  /\ listeners = <<>>
  /\ decorations = <<>>
  /\ cleanup = <<>>
  /\ reveal = NoReveal
  /\ pending = {ListenerEffect, HighlightEffect}
  /\ alive = TRUE
  /\ click = NoClick

Init ==
  /\ hash \in LoadedHashes
  /\ pushed = 0
  /\ selected = InitSelected(hash)
  /\ editor = FALSE
  /\ listeners = <<>>
  /\ decorations = <<>>
  /\ cleanup = <<>>
  /\ reveal = NoReveal
  /\ pending = {HashEffect, ListenerEffect, HighlightEffect}
  /\ alive = TRUE
  /\ click = NoClick

(***************************************************************************)
(* The passive effects.                                                    *)
(***************************************************************************)
\* s without the first element equal to x
RECURSIVE RemoveOne(_, _)
RemoveOne(s, x) ==
  IF s = <<>> THEN <<>>
  ELSE IF Head(s) = x THEN Tail(s)
  ELSE <<Head(s)>> \o RemoveOne(Tail(s), x)

\* s without one occurrence of each element of xs
RECURSIVE RemoveAll(_, _)
RemoveAll(s, xs) ==
  IF xs = <<>> THEN s ELSE RemoveAll(RemoveOne(s, Head(xs)), Tail(xs))

\* new monaco.Range(a, 1, b, 1): the constructor puts the smaller line first
Range(a, b) == IF a # NaN /\ b # NaN /\ a > b THEN <<b, a>> ELSE <<a, b>>

\* what the effects read and write outside React
Outside ==
  [hash |-> hash, pushed |-> pushed, listeners |-> listeners,
   decorations |-> decorations, cleanup |-> cleanup, reveal |-> reveal]

\* HistoryReplace as history.push: the hash is written in a new entry
HistoryPush(o, h) == [o EXCEPT !.hash = h, !.pushed = @ + 1]

\* history.replace({ hash }): the hash of the current entry is replaced, no
\* entry is added
HistoryReplace(o, h) == [o EXCEPT !.hash = h]

\* RunHashEffect reading the two components at different times: the first
\* from the selection of this render, the second from the selection the
\* hash was last written for
RunHashEffectTorn(o, sel) ==
  HistoryReplace(o, SelectedHash(IF o.hash = <<>> THEN sel
                                 ELSE <<sel[1], InitSelected(o.hash)[2]>>))

\* the effect of useSelectedLine: history.replace({ hash })
RunHashEffect(o, sel) == HistoryReplace(o, SelectedHash(sel))

\* CleanListener without the removeEventListener call
CleanListenerKeeps(o) == o

\* the cleanup of the listener effect: node.removeEventListener, which takes
\* away the handler the previous run bound
CleanListener(o) ==
  [o EXCEPT !.listeners = IF o.listeners = <<>> THEN <<>> ELSE Tail(o.listeners)]

\* the listener effect: node.addEventListener('click', handler), the handler
\* calling the toggleSelected of this render
RunListenerEffect(o, sel) == [o EXCEPT !.listeners = Append(o.listeners, sel)]

\* CleanHighlight without the deltaDecorations call: the effect returns no
\* cleanup that removes its decoration
CleanHighlightKeeps(o) == [o EXCEPT !.cleanup = <<>>]

\* the cleanup of the highlight effect: editor.deltaDecorations(decorations, [])
CleanHighlight(o) ==
  [o EXCEPT !.decorations = RemoveAll(o.decorations, o.cleanup), !.cleanup = <<>>]

\* RunHighlightEffect calling editor.revealLines for a range, the reveal that
\* scrolls the least and does not center
RunHighlightEffectRevealLines(o, sel, ed) ==
  IF ~ed \/ StrictEq(sel[1], -1) THEN o
  ELSE [o EXCEPT
         !.decorations = Append(o.decorations, Range(sel[1], sel[2])),
         !.cleanup = <<Range(sel[1], sel[2])>>,
         !.reveal = IF StrictEq(sel[1], sel[2])
                    THEN [op |-> "line", from |-> sel[1], to |-> sel[1],
                          center |-> TRUE]
                    ELSE [op |-> "lines", from |-> sel[1], to |-> sel[2],
                          center |-> FALSE]]

\* the highlight effect: one decoration over the selected lines and a scroll
\* request, unless the editor is missing or nothing is selected
RunHighlightEffect(o, sel, ed) ==
  IF ~ed \/ StrictEq(sel[1], -1) THEN o
  ELSE [o EXCEPT
         !.decorations = Append(o.decorations, Range(sel[1], sel[2])),
         !.cleanup = <<Range(sel[1], sel[2])>>,
         !.reveal = IF StrictEq(sel[1], sel[2])
                    THEN [op |-> "line", from |-> sel[1], to |-> sel[1],
                          center |-> TRUE]
                    ELSE [op |-> "lines", from |-> sel[1], to |-> sel[2],
                          center |-> TRUE]]

\* React runs the pending passive effects of a commit together: the cleanups
\* of the effects that run again, then the effects in hook order
FlushPassiveEffects(p, sel, ed, o) ==
  LET c1 == IF ListenerEffect \in p THEN CleanListener(o) ELSE o
      c2 == IF HighlightEffect \in p THEN CleanHighlight(c1) ELSE c1
      r1 == IF HashEffect \in p THEN RunHashEffect(c2, sel) ELSE c2
      r2 == IF ListenerEffect \in p THEN RunListenerEffect(r1, sel) ELSE r1
  IN IF HighlightEffect \in p THEN RunHighlightEffect(r2, sel, ed) ELSE r2

\* the unmount: every effect's cleanup
UnmountEffects(o) == CleanHighlight(CleanListener(o))

SetOutside(o) ==
  /\ hash' = o.hash
  /\ pushed' = o.pushed
  /\ listeners' = o.listeners
  /\ decorations' = o.decorations
  /\ cleanup' = o.cleanup
  /\ reveal' = o.reveal

\* the settled state: every effect of the last commit has run
Settled == alive /\ pending = {}

(***************************************************************************)
(* The steps.                                                              *)
(*                                                                         *)
(* A render commits the new state and leaves its passive effects pending;  *)
(* React runs them later (Flush), and at the latest before it renders      *)
(* again.  A click may therefore be dispatched while effects are pending:  *)
(* the handler bound then is the one of an earlier render.  A flush right  *)
(* after the commit, as some React versions do for clicks, is the same as  *)
(* the step followed at once by Flush.                                     *)
(***************************************************************************)
\* React flushes the passive effects of the last commit
Flush ==
  /\ alive
  /\ pending # {}
  /\ SetOutside(FlushPassiveEffects(pending, selected, editor, Outside))
  /\ pending' = {}
  /\ UNCHANGED <<selected, editor, alive, click>>

\* the value the bound handlers leave in setSelected for a click on a
\* line-number cell: each handler calls its own toggleSelected, the last wins
RECURSIVE Handle(_, _, _, _)
Handle(ls, cur, lineNo, shift) ==
  IF ls = <<>> THEN cur
  ELSE Handle(Tail(ls), ToggleSelected(Head(ls), lineNo, shift), lineNo, shift)

\* whether the handler passes this click to toggleSelected
Routed(gutter) == gutter

\* a click on an element inside the EditorArea node: a line-number cell
\* (gutter) with the given textContent, or another element
Click(gutter, text, shift) ==
  /\ alive
  /\ LET called == listeners # <<>> /\ Routed(gutter)
         lineNo == ParseInt(text)
         o == IF called
              THEN FlushPassiveEffects(pending, selected, editor, Outside)
              ELSE Outside
     IN /\ click' = [kind |-> IF gutter THEN "gutter" ELSE "other",
                     lineNo |-> IF called THEN lineNo ELSE NaN,
                     shift |-> called /\ shift, called |-> called,
                     sel |-> IF called THEN listeners[Len(listeners)]
                             ELSE <<-1, -1>>]
        /\ selected' = IF called THEN Handle(listeners, selected, lineNo, shift)
                       ELSE selected
        /\ pending' = IF called THEN {HashEffect, ListenerEffect, HighlightEffect}
                      ELSE pending
        /\ SetOutside(o)
  /\ UNCHANGED <<editor, alive>>

\* OnMount with a highlight effect that does not depend on editor and monaco
OnMountNoHighlight ==
  /\ alive
  /\ ~editor
  /\ editor' = TRUE
  /\ SetOutside(FlushPassiveEffects(pending, selected, editor, Outside))
  /\ pending' = {ListenerEffect}
  /\ UNCHANGED <<selected, alive, click>>

\* onMount: the editor has loaded; setEditor and setMonaco render again
OnMount ==
  /\ alive
  /\ ~editor
  /\ editor' = TRUE
  /\ SetOutside(FlushPassiveEffects(pending, selected, editor, Outside))
  /\ pending' = {ListenerEffect, HighlightEffect}
  /\ UNCHANGED <<selected, alive, click>>

\* the parent renders the component with a new forcedContent: the effects
\* that depend on it, or on toggleSelected, are scheduled again
SetForcedContent ==
  /\ alive
  /\ SetOutside(FlushPassiveEffects(pending, selected, editor, Outside))
  /\ pending' = {ListenerEffect, HighlightEffect}
  /\ UNCHANGED <<selected, editor, alive, click>>

\* the component is unmounted
Unmount ==
  /\ alive
  /\ alive' = FALSE
  /\ SetOutside(UnmountEffects(FlushPassiveEffects(pending, selected, editor, Outside)))
  /\ pending' = {}
  /\ UNCHANGED <<selected, editor, click>>

\* the page is loaded again with the hash it has: the component is built anew
Reload ==
  /\ selected' = InitSelected(hash)
  /\ editor' = FALSE
  /\ listeners' = <<>>
  /\ decorations' = <<>>
  /\ cleanup' = <<>>
  /\ reveal' = NoReveal
  /\ pending' = {HashEffect, ListenerEffect, HighlightEffect}
  /\ alive' = TRUE
  /\ click' = NoClick
  /\ UNCHANGED <<hash, pushed>>

Next ==
  \/ Flush
  \/ \E text \in GutterTexts, shift \in BOOLEAN : Click(TRUE, text, shift)
  \/ \E shift \in BOOLEAN : Click(FALSE, <<>>, shift)
  \/ OnMount
  \/ SetForcedContent
  \/ Unmount
  \/ Reload

Spec == Init /\ [][Next]_vars

\* the steps of a page on which no line-number cell is clicked
NextLoad ==
  \/ Flush
  \/ OnMount
  \/ SetForcedContent
  \/ Unmount
  \/ Reload

\* a page from its load on, without clicks. React runs the passive effects
\* of every commit: a pending flush is not put off for ever
SpecLoad == Init /\ [][NextLoad]_vars /\ WF_vars(Flush)

(***************************************************************************)
(* Properties.                                                             *)
(*                                                                         *)
(* `click` shows the last click: click.called says toggleSelected was      *)
(* called, click.sel is the `selected` that call read, click.lineNo and    *)
(* click.shift its arguments.  Nothing but a click changes `selected`, so  *)
(* until the next click `selected` is the result of that call.             *)
(***************************************************************************)

\* C1: for every selection (a, b) that toggleSelected reads, every line >= 1
\* and every shift flag, the result is (-1,-1) if a = b = line; otherwise
\* (line, line) if a = -1 or shift is not held; otherwise (a, line).
C1_TogglePolicy ==
  (click.called /\ click.lineNo # NaN /\ click.lineNo >= 1) =>
    LET a == click.sel[1]
        b == click.sel[2]
        line == click.lineNo
    IN selected = IF a = line /\ b = line THEN <<-1, -1>>
                  ELSE IF a = -1 \/ ~click.shift THEN <<line, line>>
                  ELSE <<a, line>>

\* a shift-click on line 2 that read (4,4) has stored (4,2)
C1_Witness ==
  /\ click.called /\ click.shift /\ click.lineNo = 2
  /\ click.sel = <<4, 4>>
  /\ selected = <<4, 2>>

\* C2: in every settled state the window hash is the serialization of the
\* selection: empty for the empty selection, #L<min> when both components
\* are equal, #L<min>-<max> otherwise (components compared as numbers).
C2_HashMirrorsSelected ==
  Settled =>
    LET a == selected[1]
        b == selected[2]
        lo == NumToString(MathMin(a, b))
        hi == NumToString(MathMax(a, b))
    IN /\ hash = IF a = -1 /\ b = -1 THEN <<>>
                 ELSE IF StrictEq(a, b) THEN <<"#", "L">> \o lo
                 ELSE <<"#", "L">> \o lo \o <<"-">> \o hi
       /\ selected = <<3, 3>> => hash = <<"#", "L", "3">>
       /\ selected = <<4, 2>> => hash = <<"#", "L", "2", "-", "4">>
       /\ selected = <<2, 4>> => hash = <<"#", "L", "2", "-", "4">>

\* settled after a shift-click stored (4,2): the hash is #L2-4
C2_Witness ==
  /\ Settled
  /\ click.called /\ click.shift
  /\ selected = <<4, 2>>
  /\ hash = <<"#", "L", "2", "-", "4">>

\* C3: right after the load (no effect has run yet) the selection is the one
\* the hash stands for: (start, end) for #L<start>-<end>, (start, start) for
\* #L<start>, and (-1,-1) for every other hash, the empty one included.
C3_InitFromHash ==
  (alive /\ listeners = <<>>) =>
    LET body == SubSeq(hash, 3, Len(hash))
        dashes == {i \in 1..Len(body) : body[i] = "-"}
        digitsBut(k) == \A i \in 1..Len(body) : i # k => IsDigit(body[i])
        single == body # <<>> /\ digitsBut(0)
        range == \E k \in dashes : dashes = {k} /\ 1 < k /\ k < Len(body) /\ digitsBut(k)
        wellFormed == Len(hash) >= 3 /\ hash[1] = "#" /\ hash[2] = "L" /\ (single \/ range)
    IN /\ wellFormed /\ single =>
            selected = <<DigitsValue(body), DigitsValue(body)>>
       /\ wellFormed /\ range =>
            LET k == CHOOSE k \in dashes : TRUE
            IN selected = <<DigitsValue(SubSeq(body, 1, k - 1)),
                            DigitsValue(SubSeq(body, k + 1, Len(body)))>>
       /\ ~wellFormed => selected = <<-1, -1>>
       /\ hash = <<"#", "L", "2">> => selected = <<2, 2>>
       /\ hash = <<"#", "L", "0", "-", "2">> => selected = <<0, 2>>
       /\ hash = <<"#", "L", "x">> => selected = <<-1, -1>>
       /\ hash = <<>> => selected = <<-1, -1>>

\* loaded with #L2-0: the selection is (2,0)
C3_Witness ==
  /\ alive /\ listeners = <<>>
  /\ hash = <<"#", "L", "2", "-", "0">>
  /\ selected = <<2, 0>>

\* C4: the stored selection is (-1,-1) or a pair of line numbers >= 1.
C4_SelectionWellFormed ==
  \/ selected = <<-1, -1>>
  \/ /\ selected[1] # NaN /\ selected[1] >= 1
     /\ selected[2] # NaN /\ selected[2] >= 1

\* C5: toggleSelected is called only for a click on a line-number cell whose
\* text parses to a number; any other click leaves selection and hash alone.
C5_OnlyNumberedCellsToggle ==
  click.called => (click.kind = "gutter" /\ click.lineNo # NaN)

\* C6: a plain click on line n that reads the empty selection stores (n,n),
\* and a click on line n (with or without shift) that reads (n,n) stores
\* (-1,-1); once settled the hash is then empty.
C6_Collapse ==
  (click.called /\ click.lineNo # NaN /\ click.lineNo >= 1) =>
    /\ (click.sel = <<-1, -1>> /\ ~click.shift) =>
          selected = <<click.lineNo, click.lineNo>>
    /\ click.sel = <<click.lineNo, click.lineNo>> =>
          /\ selected = <<-1, -1>>
          /\ Settled => hash = <<>>

\* settled after a click on line 4 that read (4,4): nothing selected, no hash
C6_Witness ==
  /\ click.called /\ click.lineNo = 4 /\ ~click.shift
  /\ click.sel = <<4, 4>>
  /\ selected = <<-1, -1>>
  /\ Settled /\ hash = <<>>

\* C7: a shift-click on `line` that reads a non-empty selection (a, b), other
\* than (line, line), stores (a, line): the anchor stays, the second
\* component is the line clicked, and the pair is not put in order.
C7_AnchorKept ==
  (/\ click.called /\ click.shift
   /\ click.lineNo # NaN /\ click.lineNo >= 1
   /\ click.sel[1] # -1
   /\ click.sel # <<click.lineNo, click.lineNo>>)
  => selected = <<click.sel[1], click.lineNo>>

\* a shift-click on line 2 that read (4,3) has stored (4,2): a > b
C7_Witness ==
  /\ click.called /\ click.shift /\ click.lineNo = 2
  /\ click.sel = <<4, 3>>
  /\ selected = <<4, 2>>
  /\ selected[1] > selected[2]

\* C8: a plain click on an end of a range (a # b) stores (line, line), never
\* (-1,-1); with lines 4 and 2: empty -click 4-> (4,4), #L4 -shift-click 2->
\* (4,2), #L2-4 -click 4-> (4,4), #L4.
C8_PlainClickOnRangeEnd ==
  /\ (/\ click.called /\ ~click.shift
      /\ click.lineNo # NaN /\ click.lineNo >= 1
      /\ click.sel[1] # -1 /\ click.sel[1] # click.sel[2]
      /\ click.lineNo \in {click.sel[1], click.sel[2]})
     => selected = <<click.lineNo, click.lineNo>>
  /\ (click.called /\ ~click.shift /\ click.lineNo = 4 /\ click.sel = <<-1, -1>>)
     => (selected = <<4, 4>> /\ (Settled => hash = <<"#", "L", "4">>))
  /\ (click.called /\ click.shift /\ click.lineNo = 2 /\ click.sel = <<4, 4>>)
     => (selected = <<4, 2>> /\ (Settled => hash = <<"#", "L", "2", "-", "4">>))
  /\ (click.called /\ ~click.shift /\ click.lineNo = 4 /\ click.sel = <<4, 2>>)
     => (selected = <<4, 4>> /\ (Settled => hash = <<"#", "L", "4">>))

\* settled after a plain click on line 4 that read (4,2): (4,4) and #L4
C8_Witness ==
  /\ click.called /\ ~click.shift /\ click.lineNo = 4
  /\ click.sel = <<4, 2>>
  /\ selected = <<4, 4>>
  /\ Settled /\ hash = <<"#", "L", "4">>

\* C9: a click on line n that reads the empty selection stores (n,n) whether
\* or not shift is held.
C9_ShiftIgnoredWhenEmpty ==
  (/\ click.called
   /\ click.lineNo # NaN /\ click.lineNo >= 1
   /\ click.sel = <<-1, -1>>)
  => selected = <<click.lineNo, click.lineNo>>

\* a shift-click on line 3 that read the empty selection has stored (3,3)
C9_Witness ==
  /\ click.called /\ click.shift /\ click.lineNo = 3
  /\ click.sel = <<-1, -1>>
  /\ selected = <<3, 3>>

\* C10: when the page is loaded again in a settled state with a non-empty
\* selection (a, b) of numbers, the selection parsed from the hash written for
\* (a, b) is (min, min) if a = b and (min, max) otherwise; writing and parsing
\* that pair once more gives the same pair.
C10_RoundTrip ==
  [][(/\ Settled
      /\ selected[1] \notin {-1, NaN} /\ selected[2] \notin {-1, NaN}
      /\ alive' /\ listeners' = <<>>)
     => LET a == selected[1]
            b == selected[2]
            lo == IF a <= b THEN a ELSE b
            hi == IF a <= b THEN b ELSE a
        IN /\ selected' = IF a = b THEN <<lo, lo>> ELSE <<lo, hi>>
           /\ InitSelected(SelectedHash(selected')) = selected'
           /\ a <= b => selected' = selected]_vars

\* loaded again with the hash #L2-4 written for (4,2) or (2,4): (2,4)
C10_Witness ==
  /\ alive /\ listeners = <<>>
  /\ hash = <<"#", "L", "2", "-", "4">>
  /\ selected = <<2, 4>>

\* C11: the editor never holds more than one highlighted-line decoration, and
\* the one it holds is the one the last run of the highlight effect applied;
\* once the effects have run it is the decoration of the current selection
\* (none for the empty selection), also when the effect ran again for new
\* content only; after the unmount none is left.
C11_OneDecoration ==
  /\ Len(decorations) <= 1
  /\ decorations = cleanup
  /\ (Settled /\ editor) =>
        decorations = IF selected[1] = -1 THEN <<>>
                      ELSE <<Range(selected[1], selected[2])>>
  /\ ~alive => decorations = <<>>

\* unmounted after the decoration of (4,2) was applied and (4,2) was revealed:
\* the decoration is gone
C11_Witness ==
  /\ ~alive /\ editor
  /\ selected = <<4, 2>>
  /\ reveal.op = "lines" /\ reveal.from = 4 /\ reveal.to = 2
  /\ decorations = <<>>

\* C12: at most one click listener is bound to the EditorArea node at any
\* time, whatever renders replace toggleSelected, and none after the unmount.
C12_OneListener ==
  /\ Len(listeners) <= 1
  /\ Settled => Len(listeners) = 1
  /\ ~alive => listeners = <<>>

\* unmounted after a bound listener handled a click: no listener is left
C12_Witness ==
  /\ ~alive
  /\ click.called
  /\ listeners = <<>>

\* C13: no write of the hash adds an entry to the session history: after any
\* sequence of toggles the history has the entries it had at the load, and
\* the hash of the current entry is the one written for the selection.
C13_NoHistoryEntryAdded ==
  /\ pushed = 0
  /\ (Settled /\ selected = <<4, 2>>) => hash = <<"#", "L", "2", "-", "4">>

\* settled after toggles wrote #L2-4: still no entry added
C13_Witness ==
  /\ Settled /\ click.called
  /\ selected = <<4, 2>>
  /\ hash = <<"#", "L", "2", "-", "4">>
  /\ pushed = 0

\* C14: every call of toggleSelected reads the current selection: the
\* `selected` the handler's toggleSelected closes over is the `selected` of
\* the state the click is dispatched in, whatever the interleaving of clicks,
\* renders and effect runs (stated for clicks on numbered cells).
C14_ClickReadsCurrentSelection ==
  [][(/\ click'.called /\ HashEffect \in pending'
      /\ click'.lineNo # NaN
      /\ selected[1] # NaN /\ selected[2] # NaN)
     => click'.sel = selected]_vars

\* C15: the effects of a render run after its state is committed and read
\* one committed `selected`: every hash written is the serialization of the
\* selection of the state the effects run in, and every decoration and
\* scroll request is made of both components of that same selection.
C15_EffectsReadOneSelection ==
  [][/\ hash' # hash => hash' = SelectedHash(selected)
     /\ (decorations' # decorations /\ decorations' # <<>>) =>
           decorations' = <<Range(selected[1], selected[2])>>
     /\ (reveal' # reveal /\ reveal' # NoReveal) =>
           (reveal'.from = selected[1] /\ reveal'.to \in {selected[1], selected[2]}
            /\ (reveal'.op = "lines" => reveal'.to = selected[2]))
     /\ (pending # {} /\ pending' = {}) => selected' = selected]_vars

\* settled after a shift-click stored (4,2): hash, decoration and scroll
\* request are all those of (4,2)
C15_Witness ==
  /\ Settled /\ editor
  /\ click.called /\ click.shift
  /\ selected = <<4, 2>>
  /\ hash = <<"#", "L", "2", "-", "4">>
  /\ decorations = <<<<2, 4>>>>
  /\ reveal.op = "lines" /\ reveal.from = 4 /\ reveal.to = 2


\* C16: for every non-empty selection (a,b) of real lines, a > b included,
\* once the highlight effect has run the decoration spans min(a,b)..max(a,b)
\* and the scroll request was given (min(a,b), max(a,b)), never (a,b) in
\* stored order.
C16_RequestsNormalized ==
  (/\ Settled /\ editor
   /\ selected[1] >= 1 /\ selected[2] >= 1)
  => /\ decorations = <<<<MathMin(selected[1], selected[2]),
                          MathMax(selected[1], selected[2])>>>>
     /\ reveal.op # "none"
     /\ reveal.from = MathMin(selected[1], selected[2])
     /\ reveal.to = MathMax(selected[1], selected[2])


C18_RestoreOnLoad ==
  /\ [](~editor => (decorations = <<>> /\ reveal = NoReveal))
  /\ (alive /\ editor /\ selected[1] # -1)
       ~> \/ ~(alive /\ editor)
          \/ /\ decorations = <<Range(selected[1], selected[2])>>
             /\ reveal.op # "none"
             /\ reveal.from = selected[1]
             /\ reveal.to = selected[2]

C18_Witness ==
  /\ alive /\ editor /\ click = NoClick
  /\ selected = <<2, 2>>
  /\ hash = <<"#", "L", "2">>
  /\ decorations = <<<<2, 2>>>>
  /\ reveal = [op |-> "line", from |-> 2, to |-> 2, center |-> TRUE]


\* C19: the hash effect runs at mount too. Before any click, the run of the
\* hash effect replaces the loaded hash by the serialization of the initial
\* selection and leaves the selection as it is: a hash that does not match
\* /^#L\d+(-\d+)?$/ becomes the empty string, the reversed range #L2-0
\* becomes #L0-2 and #L2-2 becomes #L2; and once the effects of a load have
\* run the hash is the serialization of the selection.
C19_HashRewrittenAtMount ==
  /\ []((click = NoClick /\ pending = {}) => hash = SelectedHash(selected))
  /\ [][(click = NoClick /\ HashEffect \in pending /\ HashEffect \notin pending')
        => /\ selected = InitSelected(hash)
           /\ selected' = selected
           /\ hash' = SelectedHash(InitSelected(hash))
           /\ ~HashMatches(hash) => hash' = <<>>
           /\ hash = <<"#", "L", "2", "-", "0">>
                => hash' = <<"#", "L", "0", "-", "2">>
           /\ hash = <<"#", "L", "2", "-", "2">>
                => hash' = <<"#", "L", "2">>]_vars

C19_Witness ==
  /\ alive /\ ~editor /\ click = NoClick /\ pending = {}
  /\ selected = <<2, 0>>
  /\ hash = <<"#", "L", "0", "-", "2">>

=============================================================================
